---- MODULE Spec2Model ----
(***************************************************************************)
(* Rate limiter (app/core/rate_limit.py), its dependency layer             *)
(* (app/api/deps.py, app/main.py) and the tier / version-limit logic       *)
(* (app/api/v1/admin.py, app/services/user_service.py,                     *)
(* app/services/version_service.py) of the PlexAddons API.                 *)
(*                                                                         *)
(* Time is an integer clock.  The window of the limiter, the length of a   *)
(* day and the configured request caps are scaled down; every formula is   *)
(* written in terms of the named values, never of their magnitudes.        *)
(***************************************************************************)
EXTENDS Integers, FiniteSets, Sequences, TLC

\* ---------------------------------------------------------------- bounds

\* time.time() is a float: the clock readings (ticks) in one second.
ClockResolution == 3

\* RateLimiter.window_size (60 seconds in the source), scaled, in ticks: a
\* whole number of seconds.
window_size == 3

\* The clock stops here.
MaxClock == 6
\* Settings.rate_limit_* (environment-overridable; 100 / 30 / 100 / 300 / 1000
\* by default), scaled down and kept in the order auth < public, free < pro < premium.
rate_limit_public == 2
rate_limit_auth_endpoints == 1
rate_limit_user_free == 1
rate_limit_user_pro == 2
rate_limit_user_premium == 3
\* Length of a day in clock ticks, and the largest GrantTempTierRequest.days drawn.
DayTicks == 2
MaxDays == 2

\* ------------------------------------------------------------- constants

None == "none"
NoTime == 0 - 1
FREE == "free"
PRO == "pro"
PREMIUM == "premium"
SubscriptionTier == {FREE, PRO, PREMIUM}
Users == {"u1"}
IPs == {"ip1"}
EndpointTypes == {"public", "auth"}

ip_key(ip, endpoint_type) == <<"ratelimit", "ip", ip, endpoint_type>>
user_key(user_id) == <<"ratelimit", "user", user_id, "">>
Keys == {ip_key(i, e) : i \in IPs, e \in EndpointTypes} \cup {user_key(u) : u \in Users}

Max(a, b) == IF a >= b THEN a ELSE b

VARIABLES
    clock,          \* time.time() / datetime.now(), in ticks
    started,        \* lifespan() has run
    rate_limiter,   \* the module-level rate_limiter: None or "set"
    store,          \* Redis: key -> the sorted set (member str(t), score t)
    deadline,       \* Redis: key -> the time at which the key expires
    users,          \* the users table: tier and temporary-grant columns
    req,            \* the request being served by check_rate_limit
    log,            \* history: per key, the calls of the trailing window
    calls,          \* concurrent _check_limit calls: position and locals
    granted,        \* history: timestamp -> calls that returned allowed
    ncalls,         \* history: _check_limit calls begun
    versions,       \* the versions table (rows of the addon)
    next_id,        \* the next Version.id / created_at
    pub,            \* the response of a version handler, until it is sent
    jobs            \* concurrent create_version requests: position and locals

concVars == <<calls, granted, ncalls>>
verVars == <<versions, next_id, pub, jobs>>
vars == <<clock, started, rate_limiter, store, deadline, users, req, log,
          concVars, verVars>>

\* ------------------------------------------------------------ RateLimiter

\* Mutant (C4): the upper end of the score range taken as exclusive.
zremrangebyscore_exclusive(entries, lo, hi) == {t \in entries : ~(lo <= t /\ t < hi)}

\* ZREMRANGEBYSCORE key lo hi: drops the members whose score lies in [lo, hi].
zremrangebyscore(entries, lo, hi) == {t \in entries : ~(lo <= t /\ t <= hi)}

\* A key whose expiry has passed holds nothing.
Live(key) == IF clock >= deadline[key] THEN {} ELSE store[key]

\* int(x) of a clock value: the whole seconds in it.
int(x) == x \div ClockResolution

\* The pipeline of _check_limit: prune, count, add str(now), (expire).
Pipeline(entries, now) ==
    LET pruned == zremrangebyscore(entries, 0, now - window_size)
    IN  [current_count |-> Cardinality(pruned), entries |-> pruned \cup {now}]

\* Mutant (C2): remaining computed without the slot of the current request.
_check_limit_remaining_off(entries, now, limit) ==
    LET p == Pipeline(entries, now)
        allowed == ~(p.current_count >= limit)
    IN  [allowed |-> allowed,
         remaining |-> IF allowed THEN Max(0, limit - p.current_count) ELSE 0,
         reset_time |-> int(now + window_size),
         piped |-> p.entries,
         entries |-> IF allowed THEN p.entries ELSE p.entries \ {now}]

\* Mutant (C3): the limit compared with > instead of >=.
_check_limit_one_more(entries, now, limit) ==
    LET p == Pipeline(entries, now)
        allowed == ~(p.current_count > limit)
    IN  [allowed |-> allowed,
         remaining |-> IF allowed THEN Max(0, limit - p.current_count - 1) ELSE 0,
         reset_time |-> int(now + window_size),
         piped |-> p.entries,
         entries |-> IF allowed THEN p.entries ELSE p.entries \ {now}]

\* _check_limit on a key holding `entries`, with the clock reading `now`.
\* piped: the set after the pipeline; entries: the set after the rollback.
_check_limit(entries, now, limit) ==
    LET p == Pipeline(entries, now)
        allowed == ~(p.current_count >= limit)
    IN  [allowed |-> allowed,
         remaining |-> IF allowed THEN Max(0, limit - p.current_count - 1) ELSE 0,
         reset_time |-> int(now + window_size),
         piped |-> p.entries,
         entries |-> IF allowed THEN p.entries ELSE p.entries \ {now}]

\* check_ip_limit: the limit of the endpoint class.
ip_limit(endpoint_type) ==
    CASE endpoint_type = "public" -> rate_limit_public
      [] endpoint_type = "auth" -> rate_limit_auth_endpoints
      [] OTHER -> rate_limit_public

\* check_user_limit: the limit of the tier passed in.
user_limit(tier) ==
    CASE tier = FREE -> rate_limit_user_free
      [] tier = PRO -> rate_limit_user_pro
      [] tier = PREMIUM -> rate_limit_user_premium
      [] OTHER -> rate_limit_user_free

\* ------------------------------------------------------------------ tiers

tier_order(tier) ==
    CASE tier = FREE -> 0
      [] tier = PRO -> 1
      [] tier = PREMIUM -> 2
      [] OTHER -> 0

\* get_effective_tier with an expiry that still counts at the instant it is
\* reached.
get_effective_tier_inclusive(user, now) ==
    IF user.temp_tier # None /\ user.temp_tier_expires_at # NoTime
       /\ user.temp_tier_expires_at >= now
    THEN user.temp_tier
    ELSE user.subscription_tier

\* get_effective_tier(user) at the time `now`.
get_effective_tier(user, now) ==
    IF user.temp_tier # None /\ user.temp_tier_expires_at # NoTime
       /\ user.temp_tier_expires_at > now
    THEN user.temp_tier
    ELSE user.subscription_tier

\* SubscriptionTier.value, as passed to check_rate_limit
tier_value(tier) == tier

\* ------------------------------------------------- the dependency layer

NoReq ==
    [pc |-> "idle", ip |-> None, endpoint_type |-> None, user_id |-> None,
     user_tier |-> None, ip_called |-> FALSE, ip_allowed |-> FALSE,
     ip_remaining |-> 0, user_called |-> FALSE, user_allowed |-> FALSE,
     user_remaining |-> 0, user_limit |-> 0, store_failed |-> FALSE,
     effective_tier |-> None, outcome |-> None]

\* lifespan(): connect to Redis and ping; on any exception the limiter is
\* left unset ("Rate limiting will be disabled").
lifespan(redis_ok) ==
    /\ ~started
    /\ started' = TRUE
    /\ rate_limiter' = IF redis_ok THEN "set" ELSE rate_limiter
    /\ UNCHANGED <<clock, store, deadline, users, req, log, concVars, verVars>>

\* What the dependency does with the limiter it got: `if not limiter: return`.
Dispatch(limiter, ip, endpoint_type, user_id, user_tier) ==
    IF limiter = None
    THEN [NoReq EXCEPT !.pc = "done", !.ip = ip, !.endpoint_type = endpoint_type,
                       !.user_id = user_id, !.outcome = "ungated"]
    ELSE [NoReq EXCEPT !.pc = "ip", !.ip = ip, !.endpoint_type = endpoint_type,
                       !.user_id = user_id, !.user_tier = user_tier]

\* The tier a dependency passes for a user: user.subscription_tier.value.
passed_tier(user) == tier_value(user.subscription_tier)

\* History: the effective tier of the request's user when the dependency runs.
EffectiveNow(user_id) ==
    IF user_id # None THEN get_effective_tier(users[user_id], clock) ELSE None

\* rate_limit_check: optional user, endpoint class from the path.
rate_limit_check(ip, path_has_auth, user_id) ==
    /\ started
    /\ req.pc \in {"idle", "done"}
    /\ req' = [Dispatch(rate_limiter, ip,
                        IF path_has_auth THEN "auth" ELSE "public",
                        user_id,
                        IF user_id # None THEN passed_tier(users[user_id]) ELSE None)
                 EXCEPT !.effective_tier = EffectiveNow(user_id)]
    /\ UNCHANGED <<clock, started, rate_limiter, store, deadline, users, log, concVars, verVars>>

\* rate_limit_check_authenticated: a user is required, the class is "public".
rate_limit_check_authenticated(ip, user_id) ==
    /\ started
    /\ req.pc \in {"idle", "done"}
    /\ req' = [Dispatch(rate_limiter, ip, "public", user_id, passed_tier(users[user_id]))
                 EXCEPT !.effective_tier = EffectiveNow(user_id)]
    /\ UNCHANGED <<clock, started, rate_limiter, store, deadline, users, log, concVars, verVars>>

\* One call of _check_limit against the store.  fail = "pipeline": the store
\* is unreachable when the pipeline is sent; fail = "rollback": it becomes
\* unreachable before the ZREM of a rejected call (the added member stays).
Call(key, limit, fail) ==
    LET r == _check_limit(Live(key), clock, limit)
    IN  [raised |-> fail # "none",
         executed |-> fail # "pipeline",
         allowed |-> r.allowed,
         remaining |-> r.remaining,
         reset_time |-> r.reset_time,
         entries |-> CASE fail = "pipeline" -> store[key]
                       [] fail = "rollback" -> r.piped
                       [] OTHER -> r.entries]

FailOK(key, limit, fail) ==
    fail = "rollback" => ~_check_limit(Live(key), clock, limit).allowed

\* The history of a key: the calls that reached the store within the
\* trailing window of the newest one.  fresh: no call in the window before
\* this one; prev: the time of the call before this one.
Logged(key, limit, c) ==
    LET kept == SelectSeq(log[key], LAMBDA e : e.now > clock - window_size)
    IN  Append(kept, [now |-> clock, limit |-> limit, allowed |-> c.allowed,
                      remaining |-> c.remaining, returned |-> ~c.raised,
                      fresh |-> kept = <<>>,
                      prev |-> IF log[key] = <<>> THEN NoTime
                               ELSE log[key][Len(log[key])].now])

StoreEffect(key, limit, c) ==
    /\ store' = [store EXCEPT ![key] = c.entries]
    /\ deadline' = IF c.executed
                   THEN [deadline EXCEPT ![key] = clock + window_size + ClockResolution]
                   ELSE deadline
    /\ log' = IF c.executed THEN [log EXCEPT ![key] = Logged(key, limit, c)] ELSE log
    /\ clock' = clock + 1

\* Mutant (C7): a rejected IP check does not stop the request.
after_ip_check_no_stop(r, c) ==
    IF c.raised
    THEN [r EXCEPT !.pc = "done", !.ip_called = TRUE, !.outcome = "503"]
    ELSE IF r.user_id # None /\ r.user_tier # None
    THEN [r EXCEPT !.pc = "user", !.ip_called = TRUE, !.ip_allowed = c.allowed,
                   !.ip_remaining = c.remaining]
    ELSE [r EXCEPT !.pc = "done", !.ip_called = TRUE, !.ip_allowed = c.allowed,
                   !.ip_remaining = c.remaining,
                   !.outcome = IF c.allowed THEN "proceed" ELSE "429_ip"]

\* check_rate_limit after the IP check: except RedisError -> 503; not allowed
\* -> 429; a user and a tier -> the user check; else the headers are returned.
after_ip_check(r, c) ==
    IF c.raised
    THEN [r EXCEPT !.pc = "done", !.ip_called = TRUE, !.outcome = "503"]
    ELSE IF ~c.allowed
    THEN [r EXCEPT !.pc = "done", !.ip_called = TRUE, !.ip_allowed = FALSE,
                   !.ip_remaining = c.remaining, !.outcome = "429_ip"]
    ELSE IF r.user_id # None /\ r.user_tier # None
    THEN [r EXCEPT !.pc = "user", !.ip_called = TRUE, !.ip_allowed = TRUE,
                   !.ip_remaining = c.remaining]
    ELSE [r EXCEPT !.pc = "done", !.ip_called = TRUE, !.ip_allowed = TRUE,
                   !.ip_remaining = c.remaining, !.outcome = "proceed"]

\* Mutant (C5): the RedisError of the user check is swallowed (fail open).
after_user_check_fail_open(r, c, limit) ==
    IF c.raised \/ c.allowed
    THEN [r EXCEPT !.pc = "done", !.user_called = TRUE, !.user_allowed = TRUE,
                   !.user_remaining = c.remaining, !.user_limit = limit,
                   !.outcome = "proceed"]
    ELSE [r EXCEPT !.pc = "done", !.user_called = TRUE, !.user_allowed = FALSE,
                   !.user_remaining = c.remaining, !.user_limit = limit,
                   !.outcome = "429_user"]

\* check_rate_limit after the user check.
after_user_check(r, c, limit) ==
    IF c.raised
    THEN [r EXCEPT !.pc = "done", !.user_called = TRUE, !.user_limit = limit,
                   !.outcome = "503"]
    ELSE IF ~c.allowed
    THEN [r EXCEPT !.pc = "done", !.user_called = TRUE, !.user_allowed = FALSE,
                   !.user_remaining = c.remaining, !.user_limit = limit,
                   !.outcome = "429_user"]
    ELSE [r EXCEPT !.pc = "done", !.user_called = TRUE, !.user_allowed = TRUE,
                   !.user_remaining = c.remaining, !.user_limit = limit,
                   !.outcome = "proceed"]

\* check_rate_limit, first await: check_ip_limit(ip, endpoint_type).
check_ip_limit(fail) ==
    /\ req.pc = "ip"
    /\ clock < MaxClock
    /\ LET key == ip_key(req.ip, req.endpoint_type)
           limit == ip_limit(req.endpoint_type)
       IN  /\ FailOK(key, limit, fail)
           /\ StoreEffect(key, limit, Call(key, limit, fail))
           /\ req' = [after_ip_check(req, Call(key, limit, fail))
                         EXCEPT !.store_failed = (fail # "none")]
    /\ UNCHANGED <<started, rate_limiter, users, concVars, verVars>>

\* check_rate_limit, second await: check_user_limit(user_id, user_tier).
check_user_limit(fail) ==
    /\ req.pc = "user"
    /\ clock < MaxClock
    /\ LET key == user_key(req.user_id)
           limit == user_limit(req.user_tier)
       IN  /\ FailOK(key, limit, fail)
           /\ StoreEffect(key, limit, Call(key, limit, fail))
           /\ req' = [after_user_check(req, Call(key, limit, fail), limit)
                         EXCEPT !.store_failed = (fail # "none")]
    /\ UNCHANGED <<started, rate_limiter, users, concVars, verVars>>

\* Time passes.
NoPub ==
    [op |-> None, data |-> None, rows |-> {}, user |-> None,
     result |-> None, deleted |-> 0, count_before |-> 0, effective_tier |-> None,
     lapsed |-> FALSE]

\* No handler of the version endpoints is between its work and its response.
Quiet == pub.result = None

Tick ==
    /\ Quiet
    /\ clock < MaxClock
    /\ clock' = clock + 1
    /\ UNCHANGED <<started, rate_limiter, store, deadline, users, req, log, concVars, verVars>>

\* ------------------------------------------------- concurrent callers

\* Calls of _check_limit begun in the concurrent specification.
MaxCalls == 4

\* Tasks of the event loop (and of other workers) inside _check_limit.
Procs == {"p1", "p2", "p3"}

\* The key and the limit the concurrent callers share.
ConcKey == ip_key("ip1", "public")
ConcLimit == ip_limit("public")

IdleCall == [pc |-> "idle", now |-> 0]

\* ZREM key member
zrem(entries, member) == entries \ {member}

\* now = time.time()
read_clock(p) ==
    /\ calls[p].pc = "idle"
    /\ ncalls < MaxCalls
    /\ calls' = [calls EXCEPT ![p] = [pc |-> "pipe", now |-> clock]]
    /\ ncalls' = ncalls + 1
    /\ UNCHANGED <<clock, started, rate_limiter, store, deadline, users, req, log,
                   granted, verVars>>

\* results = await pipe.execute(): the four commands run as one unit; an
\* allowed call returns here.
execute_pipeline(p) ==
    /\ calls[p].pc = "pipe"
    /\ LET r == _check_limit(Live(ConcKey), calls[p].now, ConcLimit)
       IN  /\ store' = [store EXCEPT ![ConcKey] = r.piped]
           /\ deadline' = [deadline EXCEPT ![ConcKey] = clock + window_size + ClockResolution]
           /\ IF r.allowed
              THEN /\ calls' = [calls EXCEPT ![p] = IdleCall]
                   /\ granted' = [granted EXCEPT ![calls[p].now] = @ + 1]
              ELSE /\ calls' = [calls EXCEPT ![p].pc = "zrem"]
                   /\ granted' = granted
    /\ UNCHANGED <<clock, started, rate_limiter, users, req, log, ncalls, verVars>>

\* await self.redis.zrem(key, str(now)); return False, 0, reset_time
rollback(p) ==
    /\ calls[p].pc = "zrem"
    /\ store' = [store EXCEPT ![ConcKey] = zrem(Live(ConcKey), calls[p].now)]
    /\ calls' = [calls EXCEPT ![p] = IdleCall]
    /\ UNCHANGED <<clock, started, rate_limiter, deadline, users, req, log,
                   granted, ncalls, verVars>>

\* ------------------------------------------------------- tier operations

\* Settings.storage_quota_* (5 MB / 100 MB / 1 GB by default), in bytes, scaled.
storage_quota_free == 30
storage_quota_pro == 40
storage_quota_premium == 50

get_storage_quota_for_tier(tier) ==
    CASE tier = FREE -> storage_quota_free
      [] tier = PRO -> storage_quota_pro
      [] tier = PREMIUM -> storage_quota_premium
      [] OTHER -> storage_quota_free

\* admin grant_temp_tier: the granted tier must be above the persisted one.
grant_temp_tier(user_id, tier, days) ==
    /\ Quiet
    /\ ~(tier_order(tier) <= tier_order(users[user_id].subscription_tier))
    /\ users' = [users EXCEPT ![user_id].temp_tier = tier,
                              ![user_id].temp_tier_expires_at = clock + days * DayTicks]
    /\ UNCHANGED <<clock, started, rate_limiter, store, deadline, req, log, concVars, verVars>>

\* admin revoke_temp_tier
revoke_temp_tier(user_id) ==
    /\ Quiet
    /\ users[user_id].temp_tier # None
    /\ users' = [users EXCEPT ![user_id].temp_tier = None,
                              ![user_id].temp_tier_expires_at = NoTime]
    /\ UNCHANGED <<clock, started, rate_limiter, store, deadline, req, log, concVars, verVars>>

\* UserService.update_user_tier (admin update, Stripe and PayPal events)
update_user_tier(user_id, tier) ==
    /\ Quiet
    /\ users' = [users EXCEPT ![user_id].subscription_tier = tier,
                              ![user_id].storage_quota_bytes = get_storage_quota_for_tier(tier)]
    /\ UNCHANGED <<clock, started, rate_limiter, store, deadline, req, log, concVars, verVars>>

\* --------------------------------------------------------------- semver

Digits == {"0", "1", "2", "3", "4", "5", "6", "7", "8", "9"}
Letters ==
    {"a", "b", "c", "d", "e", "f", "g", "h", "i", "j", "k", "l", "m", "n", "o",
     "p", "q", "r", "s", "t", "u", "v", "w", "x", "y", "z",
     "A", "B", "C", "D", "E", "F", "G", "H", "I", "J", "K", "L", "M", "N", "O",
     "P", "Q", "R", "S", "T", "U", "V", "W", "X", "Y", "Z"}
\* \w and the class [\w.]
WordChars == Digits \cup Letters \cup {"_"}
TagChars == WordChars \cup {"."}
Whitespace == {" ", "\t", "\n", "\r"}

Drop(s, n) == SubSeq(s, n + 1, Len(s))

\* str.strip()
RECURSIVE lstrip(_)
lstrip(s) == IF s # <<>> /\ Head(s) \in Whitespace THEN lstrip(Tail(s)) ELSE s
RECURSIVE rstrip(_)
rstrip(s) ==
    IF s # <<>> /\ s[Len(s)] \in Whitespace THEN rstrip(SubSeq(s, 1, Len(s) - 1)) ELSE s
strip(s) == rstrip(lstrip(s))

\* Length of the longest prefix of s made of characters of `class`.
RECURSIVE RunLen(_, _)
RunLen(s, class) ==
    IF s # <<>> /\ Head(s) \in class THEN 1 + RunLen(Tail(s), class) ELSE 0

DigitValue(c) ==
    CASE c = "0" -> 0 [] c = "1" -> 1 [] c = "2" -> 2 [] c = "3" -> 3 [] c = "4" -> 4
      [] c = "5" -> 5 [] c = "6" -> 6 [] c = "7" -> 7 [] c = "8" -> 8 [] c = "9" -> 9

\* int() of a run of digits
RECURSIVE ToInt(_)
ToInt(ds) ==
    IF ds = <<>> THEN 0 ELSE 10 * ToInt(SubSeq(ds, 1, Len(ds) - 1)) + DigitValue(ds[Len(ds)])

\* (\d+): the digits matched and the rest.
MatchNumber(s) ==
    LET n == RunLen(s, Digits)
    IN  [ok |-> n > 0, digits |-> SubSeq(s, 1, n), rest |-> Drop(s, n)]

\* \. : the rest after a dot.
MatchDot(s) == [ok |-> s # <<>> /\ Head(s) = ".", rest |-> IF s = <<>> THEN s ELSE Tail(s)]

\* (?:-[\w.]+)? and (?:\+[\w.]+)? : the rest after the optional group.
OptionalTag(s, sign) ==
    IF s # <<>> /\ Head(s) = sign /\ RunLen(Tail(s), TagChars) > 0
    THEN Drop(Tail(s), RunLen(Tail(s), TagChars))
    ELSE s

\* parse_version: whether ^(\d+)\.(\d+)\.(\d+)(?:-[\w.]+)?(?:\+[\w.]+)?$ matches
\* version.strip(), and the <<major, minor, patch>> it returns then (the
\* source returns None when there is no match).
parse_version(version) ==
    LET s == strip(version)
        major == MatchNumber(s)
        dot1 == MatchDot(major.rest)
        minor == MatchNumber(dot1.rest)
        dot2 == MatchDot(minor.rest)
        patch == MatchNumber(dot2.rest)
        rest == OptionalTag(OptionalTag(patch.rest, "-"), "+")
    IN  IF major.ok /\ dot1.ok /\ minor.ok /\ dot2.ok /\ patch.ok /\ rest = <<>>
        THEN [matched |-> TRUE,
              value |-> <<ToInt(major.digits), ToInt(minor.digits), ToInt(patch.digits)>>]
        ELSE [matched |-> FALSE, value |-> <<>>]

\* parse_version(version) is not None
is_valid_version(version) == parse_version(version).matched

\* --------------------------------------------------------------- versions

\* Settings.version_limit_* (3 / 10 / -1 by default; the two finite limits
\* scaled, -1 means unlimited).
version_limit_free == 2
version_limit_pro == 3
version_limit_premium == -1

\* Version rows ever inserted.
MaxCreated == 5

\* The addon of the model and its owner; the bytes of its name, slug,
\* description and homepage.
AddonOwner == "u1"
AddonBytes == 4

\* Version strings drawn for VersionCreate.version.
V_1_0_0 == <<"1", ".", "0", ".", "0">>
V_1_0_1 == <<"1", ".", "0", ".", "1">>
V_1_1_0 == <<"1", ".", "1", ".", "0">>
V_2_0_0_rc1 == <<"2", ".", "0", ".", "0", "-", "r", "c", ".", "1">>
V_0_9_0 == <<"0", ".", "9", ".", "0">>
V_1_0 == <<"1", ".", "0">>
VersionStrings == {V_1_0_0, V_1_0_1, V_1_1_0, V_2_0_0_rc1, V_0_9_0, V_1_0}

\* VersionCreate payloads.  Text fields other than the version are given by
\* their UTF-8 byte length (None and "" both count 0 bytes).
\* A VersionCreate without release_date.
NoDate == 0 - 1

VersionCreate(version, release_date, description) ==
    [version |-> version, release_date |-> release_date, download_url |-> 1,
     changelog_url |-> 0, description |-> description, changelog_content |-> 0]

\* A description of a size near the free quota.
LongText == 28

VersionCreates ==
    {VersionCreate(V_1_0_0, 0, 0), VersionCreate(V_1_0_1, 0, 0),
     VersionCreate(V_1_0_1, 0, LongText), VersionCreate(V_1_1_0, NoDate, 0),
     VersionCreate(V_2_0_0_rc1, 1, 0), VersionCreate(V_0_9_0, 1, 0),
     VersionCreate(V_1_0, NoDate, 0)}

\* calculate_storage_size / _calculate_string_size of a text of n bytes
calculate_storage_size(n) == n

\* The bytes create_version passes to check_storage_quota for a payload.
ContentSize(data) ==
    calculate_storage_size(data.changelog_content)
    + calculate_storage_size(data.description)

\* date.today()
today == clock \div DayTicks

\* UserService.get_version_limit_for_tier
get_version_limit_for_tier(tier) ==
    CASE tier = FREE -> version_limit_free
      [] tier = PRO -> version_limit_pro
      [] tier = PREMIUM -> version_limit_premium
      [] OTHER -> version_limit_free

RECURSIVE SumBytes(_)
SumBytes(rows) ==
    IF rows = {} THEN 0
    ELSE LET r == CHOOSE x \in rows : TRUE
         IN  Len(r.version) + r.download_url + r.changelog_url + r.description
             + r.changelog_content + SumBytes(rows \ {r})

\* UserService.calculate_storage_used: the addon's texts, the texts of its
\* versions, the ticket attachments (the model's user has none).
calculate_storage_used(rows, user_id) ==
    IF user_id = AddonOwner THEN AddonBytes + SumBytes(rows) ELSE 0

\* VersionService.get_version_count
get_version_count(rows) == Cardinality(rows)

\* check_version_limit without the test for the unlimited tier.
check_version_limit_no_unlimited(rows, user) ==
    get_version_count(rows) < get_version_limit_for_tier(user.subscription_tier)

\* check_version_limit that lets the count reach one past the limit.
check_version_limit_inclusive(rows, user) ==
    LET limit == get_version_limit_for_tier(user.subscription_tier)
    IN  IF limit = -1 THEN TRUE ELSE get_version_count(rows) <= limit

\* VersionService.check_version_limit
check_version_limit(rows, user) ==
    LET limit == get_version_limit_for_tier(user.subscription_tier)
    IN  IF limit = -1 THEN TRUE ELSE get_version_count(rows) < limit

\* check_storage_quota that trusts the cached column users.storage_used_bytes.
check_storage_quota_cached(rows, user_id, new_content_size, existing_size) ==
    (users[user_id].storage_used_bytes - existing_size + new_content_size)
        <= users[user_id].storage_quota_bytes

\* check_storage_quota that also counts the bytes of the requests that have
\* passed the check and not yet written their row.
check_storage_quota_reserving(rows, user_id, new_content_size, existing_size) ==
    LET RECURSIVE Pending(_)
        Pending(ws) ==
            IF ws = {} THEN 0
            ELSE LET w == CHOOSE x \in ws : TRUE
                 IN  ContentSize(jobs[w].data) + Pending(ws \ {w})
        held == {w \in DOMAIN jobs :
                    jobs[w].pc \in {"limit", "cleanup", "recheck", "insert"}}
    IN  (calculate_storage_used(rows, user_id) + Pending(held)
           - existing_size + new_content_size)
            <= users[user_id].storage_quota_bytes

\* VersionService.check_storage_quota
check_storage_quota(rows, user_id, new_content_size, existing_size) ==
    (calculate_storage_used(rows, user_id) - existing_size + new_content_size)
        <= users[user_id].storage_quota_bytes

\* ORDER BY release_date DESC, created_at DESC
Newer(a, b) ==
    \/ a.release_date > b.release_date
    \/ a.release_date = b.release_date /\ a.created_at > b.created_at

\* cleanup_old_versions that keeps the oldest rows instead of the newest.
cleanup_old_versions_oldest(rows, user) ==
    LET limit == get_version_limit_for_tier(user.subscription_tier)
        keep == {r \in rows : Cardinality({q \in rows : Newer(r, q)}) < limit}
    IN  IF limit = -1 THEN rows
        ELSE IF keep = {} THEN rows
        ELSE keep

\* cleanup_old_versions that keeps one row fewer, making room for a new one.
cleanup_old_versions_make_room(rows, user) ==
    LET limit == get_version_limit_for_tier(user.subscription_tier)
        keep == {r \in rows : Cardinality({q \in rows : Newer(q, r)}) < limit - 1}
    IN  IF limit = -1 THEN rows
        ELSE IF keep = {} THEN rows
        ELSE keep

\* VersionService.cleanup_old_versions: the rows left (the newest `limit`).
cleanup_old_versions(rows, user) ==
    LET limit == get_version_limit_for_tier(user.subscription_tier)
        keep == {r \in rows : Cardinality({q \in rows : Newer(q, r)}) < limit}
    IN  IF limit = -1 THEN rows
        ELSE IF keep = {} THEN rows
        ELSE keep

\* The row create_version inserts.
NewVersion(data, content_size) ==
    [id |-> next_id, version |-> data.version,
     release_date |-> IF data.release_date # NoDate THEN data.release_date ELSE today,
     created_at |-> next_id,
     download_url |-> data.download_url, changelog_url |-> data.changelog_url,
     description |-> data.description, changelog_content |-> data.changelog_content,
     storage_size_bytes |-> content_size]

\* create_version that validates the version string last.
CreateVersion_validate_last(rows, user_id, data) ==
    LET user == users[user_id]
        content_size == calculate_storage_size(data.changelog_content)
                        + calculate_storage_size(data.description)
        cleaned == cleanup_old_versions(rows, user)
        deleted == Cardinality(rows) - Cardinality(cleaned)
    IN  IF ~check_storage_quota(rows, user_id, content_size, 0)
        THEN [result |-> "StorageQuotaExceeded", rows |-> rows, deleted |-> 0]
        ELSE IF ~check_version_limit(rows, user) /\ ~check_version_limit(cleaned, user)
        THEN [result |-> "VersionLimitExceeded", rows |-> cleaned, deleted |-> deleted]
        ELSE IF ~is_valid_version(data.version)
        THEN [result |-> "BadRequest", rows |-> rows, deleted |-> 0]
        ELSE IF \E r \in rows : r.version = data.version
        THEN [result |-> "BadRequest", rows |-> rows, deleted |-> 0]
        ELSE [result |-> "created", rows |-> rows \cup {NewVersion(data, content_size)},
              deleted |-> 0]

\* create_version that cleans up old versions before it checks the quota.
CreateVersion_cleanup_first(rows, user_id, data) ==
    LET user == users[user_id]
        content_size == calculate_storage_size(data.changelog_content)
                        + calculate_storage_size(data.description)
        cleaned == IF check_version_limit(rows, user)
                   THEN rows ELSE cleanup_old_versions(rows, user)
        deleted == Cardinality(rows) - Cardinality(cleaned)
    IN  IF ~is_valid_version(data.version)
        THEN [result |-> "BadRequest", rows |-> rows, deleted |-> 0]
        ELSE IF \E r \in rows : r.version = data.version
        THEN [result |-> "BadRequest", rows |-> rows, deleted |-> 0]
        ELSE IF ~check_storage_quota(cleaned, user_id, content_size, 0)
        THEN [result |-> "StorageQuotaExceeded", rows |-> cleaned, deleted |-> deleted]
        ELSE IF check_version_limit(cleaned, user)
        THEN [result |-> "created", rows |-> cleaned \cup {NewVersion(data, content_size)},
              deleted |-> deleted]
        ELSE [result |-> "VersionLimitExceeded", rows |-> cleaned, deleted |-> deleted]

\* VersionService.create_version: its result, the rows it leaves and the
\* number of rows the cleanup deleted.
CreateVersion(rows, user_id, data) ==
    LET user == users[user_id]
        content_size == calculate_storage_size(data.changelog_content)
                        + calculate_storage_size(data.description)
        cleaned == cleanup_old_versions(rows, user)
        deleted == Cardinality(rows) - Cardinality(cleaned)
    IN  IF ~is_valid_version(data.version)
        THEN [result |-> "BadRequest", rows |-> rows, deleted |-> 0]
        ELSE IF \E r \in rows : r.version = data.version
        THEN [result |-> "BadRequest", rows |-> rows, deleted |-> 0]
        ELSE IF ~check_storage_quota(rows, user_id, content_size, 0)
        THEN [result |-> "StorageQuotaExceeded", rows |-> rows, deleted |-> 0]
        ELSE IF check_version_limit(rows, user)
        THEN [result |-> "created", rows |-> rows \cup {NewVersion(data, content_size)},
              deleted |-> 0]
        ELSE IF check_version_limit(cleaned, user)
        THEN [result |-> "created", rows |-> cleaned \cup {NewVersion(data, content_size)},
              deleted |-> deleted]
        ELSE [result |-> "VersionLimitExceeded", rows |-> cleaned, deleted |-> deleted]

\* The response of a handler of the version endpoints with what it was
\* called on: the operation and its payload, the rows and the user record
\* before the call, the result, the rows deleted, the count before the call,
\* the caller's effective tier at the call and whether the caller then held
\* a temporary tier whose expiry had passed.
Published(op, user_id, data, rows, c) ==
    [op |-> op, data |-> data, rows |-> rows, user |-> users[user_id],
     result |-> c.result, deleted |-> c.deleted,
     count_before |-> Cardinality(rows),
     effective_tier |-> get_effective_tier(users[user_id], clock),
     lapsed |-> /\ users[user_id].temp_tier # None
                /\ users[user_id].temp_tier_expires_at <= clock]

\* UserService.update_storage_used after the given rows are committed.
StorageUpdated(rows, user_id) ==
    [users EXCEPT ![user_id].storage_used_bytes = calculate_storage_used(rows, user_id)]

VersionEffect(op, user_id, data) ==
    LET c == CreateVersion(versions, user_id, data)
    IN  /\ versions' = c.rows
        /\ next_id' = IF c.result = "created" THEN next_id + 1 ELSE next_id
        /\ users' = IF c.result = "created" \/ c.deleted > 0
                    THEN StorageUpdated(c.rows, user_id)
                    ELSE users
        /\ pub' = Published(op, user_id, data, versions, c)

\* POST /addons/{slug}/versions by the owner: VersionService.create_version.
create_version(user_id, data) ==
    /\ Quiet
    /\ user_id = AddonOwner
    /\ next_id <= MaxCreated
    /\ VersionEffect("create_version", user_id, data)
    /\ UNCHANGED <<clock, started, rate_limiter, store, deadline, req, log, concVars,
                   jobs>>

\* require_api_key: API keys need an effective tier of PREMIUM.
require_api_key(user_id) == get_effective_tier(users[user_id], clock) = PREMIUM

\* POST /automation/addons/{slug}/publish by the owner's API key.
publish_version(user_id, data) ==
    /\ Quiet
    /\ user_id = AddonOwner
    /\ next_id <= MaxCreated
    /\ IF ~require_api_key(user_id)
       THEN /\ pub' = Published("publish_version", user_id, data, versions,
                                [result |-> "Forbidden_tier", deleted |-> 0])
            /\ UNCHANGED <<versions, next_id, users>>
       ELSE IF \E r \in versions : r.version = data.version
       THEN /\ pub' = Published("publish_version", user_id, data, versions,
                                [result |-> "Forbidden", deleted |-> 0])
            /\ UNCHANGED <<versions, next_id, users>>
       ELSE VersionEffect("publish_version", user_id, data)
    /\ UNCHANGED <<clock, started, rate_limiter, store, deadline, req, log, concVars,
                   jobs>>

\* A VersionUpdate field that is not set.
Unset == 0 - 1

\* VersionUpdate payloads, fields by their byte length.
VersionUpdate(download_url, description) ==
    [download_url |-> download_url, changelog_url |-> Unset,
     description |-> description, changelog_content |-> Unset]

VersionUpdates == {VersionUpdate(Unset, 3), VersionUpdate(4, Unset)}

\* The version strings in the paths of PATCH and DELETE requests.
UpdateTargets == {V_1_0_0}
DeleteTargets == {V_1_1_0, V_1_0_0}

\* VersionService.get_version_by_addon_and_version
get_version_by_addon_and_version(rows, version_str) ==
    {r \in rows : r.version = version_str}

\* setattr(version, key, value) for the fields the payload sets
Updated(row, data) ==
    [row EXCEPT
       !.download_url = IF data.download_url # Unset THEN data.download_url ELSE @,
       !.changelog_url = IF data.changelog_url # Unset THEN data.changelog_url ELSE @,
       !.description = IF data.description # Unset THEN data.description ELSE @,
       !.changelog_content =
           IF data.changelog_content # Unset THEN data.changelog_content ELSE @]

\* VersionService.update_version: its result and the rows it leaves.
UpdateVersion(rows, user_id, row, data) ==
    LET new_content == IF data.changelog_content # Unset
                       THEN data.changelog_content ELSE row.changelog_content
        new_description == IF data.description # Unset
                           THEN data.description ELSE row.description
        new_size == calculate_storage_size(new_content)
                    + calculate_storage_size(new_description)
        size_diff == new_size - row.storage_size_bytes
    IN  IF size_diff > 0 /\ ~check_storage_quota(rows, user_id, size_diff, 0)
        THEN [result |-> "StorageQuotaExceeded", rows |-> rows, deleted |-> 0]
        ELSE [result |-> "updated",
              rows |-> (rows \ {row})
                       \cup {[Updated(row, data) EXCEPT !.storage_size_bytes = new_size]},
              deleted |-> 0]

\* PATCH /addons/{slug}/versions/{version_str} by the owner.
update_version(user_id, version_str, data) ==
    /\ Quiet
    /\ user_id = AddonOwner
    /\ \E row \in get_version_by_addon_and_version(versions, version_str) :
          LET c == UpdateVersion(versions, user_id, row, data)
          IN  /\ versions' = c.rows
              /\ users' = IF c.result = "updated"
                          THEN StorageUpdated(c.rows, user_id)
                          ELSE users
              /\ pub' = Published("update_version", user_id, data, versions, c)
    /\ UNCHANGED <<clock, started, rate_limiter, store, deadline, req, log, concVars,
                   next_id, jobs>>

\* VersionService.delete_version: the rows it leaves.
DeleteVersion(rows, row) == rows \ {row}

\* DELETE /addons/{slug}/versions/{version_str} by the owner.
delete_version(user_id, version_str) ==
    /\ Quiet
    /\ user_id = AddonOwner
    /\ \E row \in get_version_by_addon_and_version(versions, version_str) :
          /\ versions' = DeleteVersion(versions, row)
          /\ users' = StorageUpdated(DeleteVersion(versions, row), user_id)
          /\ pub' = Published("delete_version", user_id, row, versions,
                              [result |-> "deleted", deleted |-> 0])
    /\ UNCHANGED <<clock, started, rate_limiter, store, deadline, req, log, concVars,
                   next_id, jobs>>

\* The handler's response is sent.
respond ==
    /\ ~Quiet
    /\ pub' = NoPub
    /\ UNCHANGED <<clock, started, rate_limiter, store, deadline, users, req, log,
                   concVars, versions, next_id, jobs>>

\* ------------------------------------------ concurrent create_version

\* Requests served at the same time, each with its own database session.
Workers == {"w1", "w2"}

\* The payloads they send.
ConcCreates ==
    {VersionCreate(V_1_0_0, 0, 0), VersionCreate(V_1_0_1, 0, LongText),
     VersionCreate(V_1_1_0, NoDate, 0), VersionCreate(V_1_1_0, NoDate, LongText)}

IdleJob == [pc |-> "idle", data |-> None, result |-> None]

\* The request ends with the given result.
Done(job, result) == [job EXCEPT !.pc = "done", !.result = result]

\* A versions table without the unique index on (addon_id, version).
UniqueViolation_no_index(rows, version) == FALSE

\* The unique index idx_versions_addon_version refuses the INSERT.
UniqueViolation(rows, version) == \E r \in rows : r.version = version

jobFrame == <<clock, started, rate_limiter, store, deadline, req, log, concVars, pub>>

\* POST /addons/{slug}/versions up to the call of VersionService.create_version.
create_begin(w, data) ==
    /\ jobs[w].pc = "idle"
    /\ next_id <= MaxCreated
    /\ jobs' = [jobs EXCEPT ![w] = [pc |-> "validate", data |-> data, result |-> None]]
    /\ UNCHANGED <<jobFrame, users, versions, next_id>>

\* POST /automation/addons/{slug}/publish up to the call of
\* VersionService.create_version.
publish_begin(w, data) ==
    /\ jobs[w].pc = "idle"
    /\ next_id <= MaxCreated
    /\ LET job == [pc |-> "validate", data |-> data, result |-> None]
       IN  jobs' = [jobs EXCEPT ![w] =
                      IF ~require_api_key(AddonOwner) THEN Done(job, "Forbidden_tier")
                      ELSE IF get_version_by_addon_and_version(versions, data.version) # {}
                      THEN Done(job, "Forbidden")
                      ELSE job]
    /\ UNCHANGED <<jobFrame, users, versions, next_id>>

\* create_version: is_valid_version and the lookup of an existing version.
cv_validate(w) ==
    /\ jobs[w].pc = "validate"
    /\ jobs' = [jobs EXCEPT ![w] =
                  IF ~is_valid_version(jobs[w].data.version) THEN Done(@, "BadRequest")
                  ELSE IF get_version_by_addon_and_version(versions, jobs[w].data.version)
                            # {}
                  THEN Done(@, "BadRequest")
                  ELSE [@ EXCEPT !.pc = "quota"]]
    /\ UNCHANGED <<jobFrame, users, versions, next_id>>

\* create_version: check_storage_quota.
cv_quota(w) ==
    /\ jobs[w].pc = "quota"
    /\ jobs' = [jobs EXCEPT ![w] =
                  IF ~check_storage_quota(versions, AddonOwner, ContentSize(jobs[w].data), 0)
                  THEN Done(@, "StorageQuotaExceeded")
                  ELSE [@ EXCEPT !.pc = "limit"]]
    /\ UNCHANGED <<jobFrame, users, versions, next_id>>

\* create_version: the first check_version_limit.
cv_limit(w) ==
    /\ jobs[w].pc = "limit"
    /\ jobs' = [jobs EXCEPT ![w].pc =
                  IF check_version_limit(versions, users[AddonOwner])
                  THEN "insert" ELSE "cleanup"]
    /\ UNCHANGED <<jobFrame, users, versions, next_id>>

\* create_version: cleanup_old_versions, committed.
cv_cleanup(w) ==
    /\ jobs[w].pc = "cleanup"
    /\ versions' = cleanup_old_versions(versions, users[AddonOwner])
    /\ users' = StorageUpdated(cleanup_old_versions(versions, users[AddonOwner]),
                               AddonOwner)
    /\ jobs' = [jobs EXCEPT ![w].pc = "recheck"]
    /\ UNCHANGED <<jobFrame, next_id>>

\* create_version: check_version_limit after the cleanup.
cv_recheck(w) ==
    /\ jobs[w].pc = "recheck"
    /\ jobs' = [jobs EXCEPT ![w] =
                  IF check_version_limit(versions, users[AddonOwner])
                  THEN [@ EXCEPT !.pc = "insert"]
                  ELSE Done(@, "VersionLimitExceeded")]
    /\ UNCHANGED <<jobFrame, users, versions, next_id>>

\* create_version: db.add(version) and commit, then update_storage_used.
cv_insert(w) ==
    /\ jobs[w].pc = "insert"
    /\ IF UniqueViolation(versions, jobs[w].data.version)
       THEN /\ jobs' = [jobs EXCEPT ![w] = Done(@, "IntegrityError")]
            /\ UNCHANGED <<users, versions, next_id>>
       ELSE LET rows == versions
                          \cup {NewVersion(jobs[w].data, ContentSize(jobs[w].data))}
            IN  /\ versions' = rows
                /\ next_id' = next_id + 1
                /\ users' = StorageUpdated(rows, AddonOwner)
                /\ jobs' = [jobs EXCEPT ![w] = Done(@, "created")]
    /\ UNCHANGED jobFrame

\* The response is sent.
cv_return(w) ==
    /\ jobs[w].pc = "done"
    /\ jobs' = [jobs EXCEPT ![w] = IdleJob]
    /\ UNCHANGED <<jobFrame, users, versions, next_id>>

\* ------------------------------------------------------- specification

NewUser ==
    [subscription_tier |-> FREE, storage_used_bytes |-> 0,
     storage_quota_bytes |-> storage_quota_free,
     temp_tier |-> None, temp_tier_expires_at |-> NoTime]

InitLimiter ==
    /\ clock = 0
    /\ started = FALSE
    /\ rate_limiter = None
    /\ store = [k \in Keys |-> {}]
    /\ deadline = [k \in Keys |-> 0]
    /\ users = [u \in Users |-> NewUser]
    /\ req = NoReq
    /\ log = [k \in Keys |-> <<>>]

InitConc ==
    /\ calls = [p \in Procs |-> IdleCall]
    /\ granted = [t \in 0..MaxClock |-> 0]
    /\ ncalls = 0

InitVer ==
    /\ versions = {}
    /\ next_id = 1
    /\ pub = NoPub
    /\ jobs = [w \in Workers |-> IdleJob]

Init == InitLimiter /\ InitConc /\ InitVer

Fails == {"none", "pipeline", "rollback"}

Next ==
    \/ \E ok \in BOOLEAN : lifespan(ok)
    \/ \E ip \in IPs, a \in BOOLEAN, u \in Users \cup {None} : rate_limit_check(ip, a, u)
    \/ \E ip \in IPs, u \in Users : rate_limit_check_authenticated(ip, u)
    \/ \E f \in Fails : check_ip_limit(f)
    \/ \E f \in Fails : check_user_limit(f)
    \/ Tick
    \/ \E u \in Users, t \in SubscriptionTier : update_user_tier(u, t)

Spec == Init /\ [][Next]_vars

\* Requests of a user whose tier and temporary grant change.
NextTier ==
    \/ \E ok \in BOOLEAN : lifespan(ok)
    \/ \E ip \in IPs, u \in Users : rate_limit_check_authenticated(ip, u)
    \/ \E f \in Fails : check_ip_limit(f)
    \/ \E f \in Fails : check_user_limit(f)
    \/ Tick
    \/ \E u \in Users, t \in SubscriptionTier, d \in 1..MaxDays : grant_temp_tier(u, t, d)
    \/ \E u \in Users : revoke_temp_tier(u)
    \/ \E u \in Users, t \in SubscriptionTier : update_user_tier(u, t)

SpecTier == Init /\ [][NextTier]_vars

\* Publishing versions while the owner's temporary grant comes and goes.
NextVer ==
    \/ \E u \in Users, data \in VersionCreates : create_version(u, data)
    \/ \E u \in Users, data \in VersionCreates : publish_version(u, data)
    \/ Tick
    \/ \E u \in Users, t \in SubscriptionTier, d \in 1..MaxDays : grant_temp_tier(u, t, d)
    \/ \E u \in Users : revoke_temp_tier(u)
    \/ respond

SpecVer == Init /\ [][NextVer]_vars

\* Creating, updating and deleting versions while the owner's persisted tier
\* changes.
NextEvict ==
    \/ \E u \in Users, data \in VersionCreates : create_version(u, data)
    \/ \E u \in Users, v \in UpdateTargets, data \in VersionUpdates :
          update_version(u, v, data)
    \/ \E u \in Users, v \in DeleteTargets : delete_version(u, v)
    \/ \E u \in Users, t \in SubscriptionTier : update_user_tier(u, t)
    \/ respond

SpecEvict == Init /\ [][NextEvict]_vars

\* Concurrent create_version requests on one addon, through both endpoints,
\* while the owner's persisted tier changes.
NextPub ==
    \/ \E w \in Workers, data \in ConcCreates : create_begin(w, data)
    \/ \E w \in Workers, data \in ConcCreates : publish_begin(w, data)
    \/ \E w \in Workers : cv_validate(w)
    \/ \E w \in Workers : cv_quota(w)
    \/ \E w \in Workers : cv_limit(w)
    \/ \E w \in Workers : cv_cleanup(w)
    \/ \E w \in Workers : cv_recheck(w)
    \/ \E w \in Workers : cv_insert(w)
    \/ \E w \in Workers : cv_return(w)
    \/ \E u \in Users, t \in SubscriptionTier : update_user_tier(u, t)

SpecPub == Init /\ [][NextPub]_vars

\* The payloads of concurrent requests of a user whose tier stays FREE.
RaceCreates ==
    {VersionCreate(V_1_0_0, 0, 0), VersionCreate(V_1_1_0, NoDate, 0),
     VersionCreate(V_0_9_0, 0, 0)}

\* Concurrent create_version requests on one addon while the owner's tier
\* does not change.
NextRace ==
    \/ \E w \in Workers, data \in RaceCreates : create_begin(w, data)
    \/ \E w \in Workers : cv_validate(w)
    \/ \E w \in Workers : cv_quota(w)
    \/ \E w \in Workers : cv_limit(w)
    \/ \E w \in Workers : cv_cleanup(w)
    \/ \E w \in Workers : cv_recheck(w)
    \/ \E w \in Workers : cv_insert(w)
    \/ \E w \in Workers : cv_return(w)

SpecRace == Init /\ [][NextRace]_vars

\* The payloads of the requests that pass through the dependency layer.
GateCreates == {VersionCreate(V_1_0_0, 0, 0), VersionCreate(V_1_1_0, NoDate, 0)}

\* POST /addons/{slug}/versions as FastAPI serves it: the endpoint body runs
\* once the dependency rate_limit_check_authenticated has returned for this
\* request without raising.
create_version_request(user_id, data) ==
    /\ Quiet
    /\ req.pc = "done"
    /\ req.outcome \in {"proceed", "ungated"}
    /\ req.user_id = user_id
    /\ user_id = AddonOwner
    /\ next_id <= MaxCreated
    /\ VersionEffect("create_version", user_id, data)
    /\ req' = NoReq
    /\ UNCHANGED <<clock, started, rate_limiter, store, deadline, log, concVars, jobs>>

\* Version requests behind the dependency layer: POST /addons/{slug}/versions
\* with its rate-limit dependency, POST /automation/addons/{slug}/publish
\* with the dependencies it declares (require_api_key, get_db).
NextGate ==
    \/ \E ok \in BOOLEAN : lifespan(ok)
    \/ \E ip \in IPs, u \in Users : rate_limit_check_authenticated(ip, u)
    \/ \E f \in Fails : check_ip_limit(f)
    \/ \E f \in Fails : check_user_limit(f)
    \/ \E u \in Users, data \in GateCreates : create_version_request(u, data)
    \/ \E u \in Users, data \in GateCreates : publish_version(u, data)
    \/ \E u \in Users, t \in SubscriptionTier : update_user_tier(u, t)
    \/ respond

SpecGate == Init /\ [][NextGate]_vars

\* Concurrent callers of _check_limit on one key.
NextConc ==
    \/ \E p \in Procs : read_clock(p)
    \/ \E p \in Procs : execute_pipeline(p)
    \/ \E p \in Procs : rollback(p)
    \/ Tick

SpecConc == Init /\ [][NextConc]_vars

\* ------------------------------------------------ concurrent properties

RECURSIVE SumGranted(_, _)
SumGranted(lo, hi) ==
    IF hi < lo \/ hi < 0 THEN 0
    ELSE (IF hi <= MaxClock THEN granted[hi] ELSE 0) + SumGranted(lo, hi - 1)

\* C1: under every interleaving of concurrent _check_limit calls on a key,
\* equal clock readings included, the calls that returned allowed with
\* timestamps in any trailing window number at most the key's limit.
C1_AllowedWithinWindow ==
    \A w \in 0..MaxClock : SumGranted(w - window_size + 1, w) <= ConcLimit

\* ------------------------------------------------ sequential properties

IpKeys == {ip_key(i, e) : i \in IPs, e \in EndpointTypes}

\* The calls logged for a key form a run in one window that starts fresh.
FreshRun(k) == log[k] # <<>> /\ log[k][1].fresh

SameLimit(k) == \A m \in 1..Len(log[k]) : log[k][m].limit = log[k][1].limit

\* C2: N sequential check_ip_limit calls of one IP and endpoint class inside
\* one window, starting from an idle key, with N <= limit: every call is
\* allowed, remaining falls from call to call, and is limit - N after the N-th.
C2_WithinLimitAllAllowed ==
    \A i \in IPs, e \in EndpointTypes :
        LET l == log[ip_key(i, e)]
        IN  (FreshRun(ip_key(i, e)) /\ Len(l) <= ip_limit(e)) =>
                \A m \in 1..Len(l) :
                    /\ l[m].allowed
                    /\ l[m].remaining = ip_limit(e) - m
                    /\ m > 1 => l[m].remaining < l[m - 1].remaining

\* C2 witness: a run of exactly `limit` calls on the public class, the last
\* one reporting remaining = 0.
C2_Witness ==
    \E i \in IPs :
        LET l == log[ip_key(i, "public")]
        IN  /\ FreshRun(ip_key(i, "public"))
            /\ Len(l) = rate_limit_public
            /\ l[Len(l)].allowed
            /\ l[Len(l)].remaining = 0

\* C3: more than `limit` sequential checks on one key inside one window, from
\* an idle key: the first `limit` are allowed, every later one is rejected
\* with remaining = 0; a rejection returned to the middleware is a 429.
C3_OverLimitRejected ==
    /\ \A k \in Keys :
        (FreshRun(k) /\ SameLimit(k)) =>
            \A m \in 1..Len(log[k]) :
                /\ m <= log[k][1].limit => log[k][m].allowed
                /\ m > log[k][1].limit =>
                       ~log[k][m].allowed /\ log[k][m].remaining = 0
    /\ (req.pc = "done" /\ req.ip_called /\ ~req.store_failed /\ ~req.ip_allowed)
           => req.outcome = "429_ip" /\ req.ip_remaining = 0
    /\ (req.pc = "done" /\ req.user_called /\ ~req.store_failed /\ ~req.user_allowed)
           => req.outcome = "429_user" /\ req.user_remaining = 0

\* C3 witness: the call after the first `limit` calls of a window was
\* rejected and the request ended with 429.
C3_Witness ==
    \E i \in IPs :
        LET k == ip_key(i, "public")
        IN  /\ FreshRun(k)
            /\ Len(log[k]) = rate_limit_public + 1
            /\ ~log[k][Len(log[k])].allowed
            /\ req.pc = "done" /\ req.endpoint_type = "public"
            /\ req.outcome = "429_ip"

\* C4: an entry recorded at t is counted at `now` only if t > now - window_size;
\* a call with no call in the window before it sees count 0, is allowed and
\* returns remaining = limit - 1, whatever preceded it.
C4_WindowExpiryResets ==
    \A k \in Keys :
        /\ \A m \in 1..Len(log[k]) :
               log[k][m].fresh =>
                   log[k][m].allowed /\ log[k][m].remaining = log[k][m].limit - 1
        /\ \A t \in store[k] : log[k] # <<>> /\ t > log[k][Len(log[k])].now - window_size

\* C4 witness: a call exactly window_size after the previous call on its key
\* (the boundary t = now - window_size), allowed as the first of a new window.
C4_Witness ==
    \E k \in Keys :
        /\ log[k] # <<>>
        /\ log[k][1].fresh
        /\ log[k][1].prev = log[k][1].now - window_size
        /\ log[k][1].allowed
        /\ log[k][1].remaining = log[k][1].limit - 1

\* C5: a store failure in the IP pipeline, the user pipeline or a rollback
\* ends the request with 503; such a request is never let through.
C5_FailClosed ==
    req.store_failed => (req.pc = "done" /\ req.outcome = "503")

\* C5 witness: the rollback of a rejected user check failed after the IP
\* check had passed.
C5_Witness ==
    /\ req.store_failed
    /\ req.user_called
    /\ req.ip_allowed
    /\ \E t \in store[user_key(req.user_id)] : t = clock - 1
    /\ Cardinality(store[user_key(req.user_id)]) > req.user_limit

\* C6: no request leaves the dependency for the business logic without a
\* limiter check that allowed it.
C6_NeverUngated ==
    (req.pc = "done" /\ req.outcome \in {"proceed", "ungated"})
        => (req.ip_called /\ req.ip_allowed)

\* C10: the per-user cap applied to an authenticated request is the cap of
\* the user's effective tier (the granted tier while a grant is unexpired).
C10_CapOfEffectiveTier ==
    req.user_called => req.user_limit = user_limit(tier_value(req.effective_tier))

\* C7: the user check starts only after the IP check returned allowed; an
\* IP rejection leaves check_user_limit uncalled and every user window as it
\* was; a user 429 belongs to a request whose IP check allowed it.
C7_Order ==
    /\ req.pc = "user" => (req.ip_called /\ req.ip_allowed /\ ~req.user_called)
    /\ req.user_called => (req.ip_called /\ req.ip_allowed)
    /\ req.outcome = "429_ip" => ~req.user_called
    /\ req.outcome = "429_user" => req.ip_allowed

C7_UserWindowKept ==
    (req.pc = "ip" /\ req'.outcome = "429_ip")
        => \A u \in Users : store'[user_key(u)] = store[user_key(u)]
                            /\ log'[user_key(u)] = log[user_key(u)]

C7_IpBeforeUser == [](C7_Order) /\ [][C7_UserWindowKept]_vars

\* C7 witness: an authenticated request rejected by the IP check while the
\* user's window still had room.
C7_Witness ==
    /\ req.pc = "done"
    /\ req.user_id # None
    /\ req.outcome = "429_ip"
    /\ ~req.user_called
    /\ Cardinality(store[user_key(req.user_id)]) < user_limit(req.user_tier)

\* C8: get_effective_tier returns the temporary tier exactly when temp_tier
\* and temp_tier_expires_at are set and the expiry is later than now, and the
\* persisted subscription_tier otherwise; a publish made after the expiry is
\* judged on the persisted tier, so one by API key gets no further than the
\* tier gate unless that tier is PREMIUM; and the step that takes the clock
\* to the expiry changes the result from the temporary tier to
\* subscription_tier while the user record stays as it was.
GrantActive(user, now) ==
    /\ user.temp_tier # None
    /\ user.temp_tier_expires_at # NoTime
    /\ now < user.temp_tier_expires_at

C8_TemporaryIffActive ==
    /\ \A u \in Users :
          /\ GrantActive(users[u], clock)
                => get_effective_tier(users[u], clock) = users[u].temp_tier
          /\ ~GrantActive(users[u], clock)
                => get_effective_tier(users[u], clock) = users[u].subscription_tier
    /\ pub.lapsed => pub.effective_tier = users[AddonOwner].subscription_tier
    /\ (pub.lapsed /\ pub.effective_tier # PREMIUM) => pub.result # "Forbidden"

C8_RevertsWithoutWrite ==
    \A u \in Users :
        (GrantActive(users[u], clock) /\ ~GrantActive(users[u], clock'))
            => \/ users'[u].temp_tier = None
               \/ /\ users' = users
                  /\ users[u].temp_tier_expires_at <= clock'
                  /\ get_effective_tier(users[u], clock) = users[u].temp_tier
                  /\ get_effective_tier(users'[u], clock') = users[u].subscription_tier

C8_EffectiveTier == [](C8_TemporaryIffActive) /\ [][C8_RevertsWithoutWrite]_vars

\* C8 witness: a publish by API key refused for the tier at or after the
\* expiry of a PREMIUM grant that is still written on the user record.
C8_Witness ==
    /\ pub.result = "Forbidden_tier"
    /\ pub.lapsed
    /\ users[AddonOwner].temp_tier = PREMIUM
    /\ users[AddonOwner].temp_tier_expires_at <= clock
    /\ users[AddonOwner].subscription_tier = FREE

\* C9: a publish made while the caller's effective tier is the granted one
\* is held to the version limit of that tier: it is rejected for the version
\* limit, or evicts rows, only if that tier has a limit and the addon had
\* reached it.
C9_GrantedVersionLimit ==
    (pub.result = "VersionLimitExceeded" \/ pub.deleted > 0)
        => LET limit == get_version_limit_for_tier(pub.effective_tier)
           IN  limit # -1 /\ pub.count_before >= limit

\* The response of a create_version that got as far as check_storage_quota.
QuotaEvaluated ==
    /\ pub.op \in {"create_version", "publish_version"}
    /\ pub.result \in {"created", "VersionLimitExceeded", "StorageQuotaExceeded"}

\* C11: check_storage_quota accepts exactly when live usage minus the bytes
\* replaced plus the bytes added is at most the storage quota of the user's
\* effective tier, whatever the state of the temporary grant.
C11_QuotaOfEffectiveTier ==
    QuotaEvaluated
        => ((pub.result # "StorageQuotaExceeded")
              <=> (calculate_storage_used(pub.rows, AddonOwner) - 0 + ContentSize(pub.data)
                     <= get_storage_quota_for_tier(pub.effective_tier)))

\* The response of a create_version call, through either endpoint, that
\* reached VersionService.create_version.
CreateAnswered ==
    /\ pub.op \in {"create_version", "publish_version"}
    /\ pub.result \notin {"Forbidden_tier", "Forbidden"}

\* The rows of `rows` that no other row is older than.
Oldest(rows) == {r \in rows : \A q \in rows : ~Newer(r, q)}

\* C12: with a version limit L that is not unlimited and exactly L versions,
\* create_version of a valid, new version that fits the quota succeeds,
\* deletes exactly one version, the oldest, and leaves L versions.
C12_AtLimitEvictsOne ==
    (/\ CreateAnswered
     /\ pub.result \in {"created", "VersionLimitExceeded"}
     /\ get_version_limit_for_tier(pub.user.subscription_tier) # -1
     /\ pub.count_before = get_version_limit_for_tier(pub.user.subscription_tier))
        => /\ pub.result = "created"
           /\ pub.deleted = 1
           /\ pub.rows \ versions = Oldest(pub.rows)
           /\ Cardinality(versions) = pub.count_before

\* C13: a create_version that ends with a rejection leaves the versions of
\* the addon as they were before the call.
C13_RejectionKeepsVersions ==
    (CreateAnswered /\ pub.result # "created") => versions = pub.rows

\* C14: one create_version call deletes at most one existing version.
C14_AtMostOneEviction ==
    CreateAnswered => Cardinality(pub.rows \ versions) <= 1

\* C15: while the user's tier stays the same, no create_version,
\* update_version or delete_version takes an addon that is within the tier's
\* version limit to a count above it.
C15_StaysWithinLimit ==
    LET limit == get_version_limit_for_tier(users[AddonOwner].subscription_tier)
    IN  (/\ users'[AddonOwner].subscription_tier = users[AddonOwner].subscription_tier
         /\ limit # -1
         /\ get_version_count(versions) <= limit)
            => get_version_count(versions') <= limit

C15_CountWithinLimit == [][C15_StaysWithinLimit]_vars

\* C15 witness: a create_version refused at the limit of the tier the user
\* has, with the addon still holding exactly that many versions.
C15_Witness ==
    /\ pub.op = "create_version"
    /\ pub.result = "VersionLimitExceeded"
    /\ pub.user.subscription_tier = PRO
    /\ users[AddonOwner].subscription_tier = PRO
    /\ pub.count_before = version_limit_pro
    /\ get_version_count(versions) = version_limit_pro

\* C16: a create_version or update_version that succeeds for a user who was
\* within quota leaves calculate_storage_used(user) at most the user's
\* storage quota.
C16_WriteStaysWithinQuota ==
    (/\ pub.op \in {"create_version", "update_version"}
     /\ pub.result \in {"created", "updated"}
     /\ calculate_storage_used(pub.rows, AddonOwner) <= pub.user.storage_quota_bytes)
        => calculate_storage_used(versions, AddonOwner)
             <= users[AddonOwner].storage_quota_bytes

\* C17: a create_version rejected for the storage quota creates no row,
\* evicts none, and leaves calculate_storage_used(user) and the user record
\* as they were.
C17_QuotaRejectionChangesNothing ==
    (CreateAnswered /\ pub.result = "StorageQuotaExceeded")
        => /\ versions = pub.rows
           /\ pub.deleted = 0
           /\ calculate_storage_used(versions, AddonOwner)
                = calculate_storage_used(pub.rows, AddonOwner)
           /\ users[AddonOwner] = pub.user

\* C17 witness: a quota rejection of a valid, new version for an addon that
\* holds more versions than the user's limit.
C17_Witness ==
    /\ pub.op = "create_version"
    /\ pub.result = "StorageQuotaExceeded"
    /\ get_version_limit_for_tier(pub.user.subscription_tier) # -1
    /\ pub.count_before > get_version_limit_for_tier(pub.user.subscription_tier)
    /\ get_version_count(versions) = pub.count_before

\* C18: calculate_storage_used is a function of the rows alone, and from
\* every state a create_version that succeeds followed by delete_version of
\* the version it created brings calculate_storage_used(user) back to its
\* value before the create.
C18_CreateDeleteRestoresUsage ==
    Quiet =>
        \A data \in VersionCreates :
            LET c == CreateVersion(versions, AddonOwner, data)
            IN  c.result = "created"
                  => \A row \in get_version_by_addon_and_version(c.rows, data.version) :
                        calculate_storage_used(DeleteVersion(c.rows, row), AddonOwner)
                          = calculate_storage_used(versions, AddonOwner)

\* C18 witness: the version created last has just been deleted from an
\* addon that keeps other versions.
C18_Witness ==
    /\ pub.op = "delete_version"
    /\ pub.result = "deleted"
    /\ pub.data.id = next_id - 1
    /\ versions # {}
    /\ versions = pub.rows \ {pub.data}

\* The payload of the answered create_version was malformed or named a
\* version the addon already had.
InvalidOrDuplicate ==
    \/ ~is_valid_version(pub.data.version)
    \/ get_version_by_addon_and_version(pub.rows, pub.data.version) # {}

\* C19: create_version answers a malformed or duplicate version string
\* with the validation error, whatever the quota and the version limit would
\* have said, and neither creates nor evicts a version.
C19_ValidationFirst ==
    (pub.op = "create_version" /\ InvalidOrDuplicate)
        => /\ pub.result = "BadRequest"
           /\ pub.deleted = 0
           /\ versions = pub.rows

\* C19 witness: a malformed version string sent when the user was over
\* quota and the addon above its version limit.
C19_Witness ==
    /\ pub.op = "create_version"
    /\ ~is_valid_version(pub.data.version)
    /\ pub.result = "BadRequest"
    /\ calculate_storage_used(pub.rows, AddonOwner) + ContentSize(pub.data)
         > pub.user.storage_quota_bytes
    /\ get_version_limit_for_tier(pub.user.subscription_tier) # -1
    /\ pub.count_before > get_version_limit_for_tier(pub.user.subscription_tier)

\* C20: no addon ever has two versions with the same version string, under
\* every interleaving of create_version requests through both endpoints;
\* and a request refused because its version string exists already leaves
\* the versions as they were.
C20_NoTwoRowsOneVersion ==
    \A r \in versions, q \in versions : r.version = q.version => r = q

C20_DuplicateRefusalKeepsRows ==
    \A w \in Workers :
        (/\ jobs[w].pc # "done"
         /\ jobs'[w].pc = "done"
         /\ jobs'[w].result \in {"BadRequest", "Forbidden", "IntegrityError"})
            => /\ versions' = versions
               /\ get_version_by_addon_and_version(versions, jobs'[w].data.version) # {}

C20_UniqueVersionStrings ==
    [](C20_NoTwoRowsOneVersion) /\ [][C20_DuplicateRefusalKeepsRows]_vars

\* C20 witness: two requests with one version string both passed the
\* lookup; one inserted and the other was refused by the unique index.
C20_Witness ==
    /\ jobs["w1"].pc = "done" /\ jobs["w1"].result = "created"
    /\ jobs["w2"].pc = "done" /\ jobs["w2"].result = "IntegrityError"
    /\ jobs["w1"].data.version = jobs["w2"].data.version
    /\ Cardinality(get_version_by_addon_and_version(versions, jobs["w2"].data.version)) = 1

\* Row a comes before row b in the order release date descending, then
\* creation time descending.
Before(a, b) ==
    \/ b.release_date < a.release_date
    \/ (b.release_date = a.release_date /\ b.created_at < a.created_at)

Min(a, b) == IF a <= b THEN a ELSE b

\* What C21 asks of the rows `kept` that a cleanup with limit N leaves of `rows`.
NewestKept(rows, kept, N) ==
    IF N = -1 \/ Cardinality(rows) <= N
    THEN kept = rows
    ELSE /\ kept \subseteq rows
         /\ Cardinality(kept) = Min(N, Cardinality(rows))
         /\ \A r \in kept, q \in rows \ kept : Before(r, q)

\* C21: cleanup_old_versions with a limit N leaves exactly the min(N, count)
\* newest versions by release date, then creation time, and deletes the
\* others; it deletes nothing when count <= N or the limit is unlimited; the
\* number it reports is the number of rows it deleted.
C21_CleanupKeepsNewest ==
    /\ \A t \in SubscriptionTier :
          NewestKept(versions,
                     cleanup_old_versions(versions, [subscription_tier |-> t]),
                     get_version_limit_for_tier(t))
    /\ (CreateAnswered /\ pub.result = "VersionLimitExceeded")
          => /\ NewestKept(pub.rows, versions,
                           get_version_limit_for_tier(pub.user.subscription_tier))
             /\ pub.deleted = Cardinality(pub.rows \ versions)

\* C21 witness: a cleanup that deleted the older one of two versions with
\* the same release date.
C21_Witness ==
    /\ pub.op = "create_version"
    /\ pub.result = "VersionLimitExceeded"
    /\ pub.deleted > 0
    /\ \E r \in versions, q \in pub.rows \ versions :
          r.release_date = q.release_date /\ q.created_at < r.created_at

\* C22: check_version_limit answers true exactly when the limit of the
\* user's persisted tier is -1 or the addon's version count is strictly below
\* it, and the two calls of it in create_version change no row, no user and
\* no id counter.
C22_LimitAnswer ==
    \A t \in SubscriptionTier :
       check_version_limit(versions, [subscription_tier |-> t])
          <=> \/ get_version_limit_for_tier(t) = -1
              \/ get_version_count(versions) < get_version_limit_for_tier(t)

C22_CheckIsReadOnly ==
    \A w \in Workers :
       (jobs[w].pc \in {"limit", "recheck"} /\ jobs'[w] # jobs[w])
          => /\ UNCHANGED <<users, versions, next_id>>
             /\ jobs'[w].pc \in {"insert", "cleanup", "done"}
             /\ (jobs'[w].pc = "insert")
                   <=> check_version_limit(versions, users[AddonOwner])

C22_CheckVersionLimit == [](C22_LimitAnswer) /\ [][C22_CheckIsReadOnly]_vars

\* A request stands between a check that answered false at a full addon and
\* the cleanup.
C22_Witness ==
    \E w \in Workers :
       /\ jobs[w].pc = "cleanup"
       /\ get_version_count(versions)
             >= get_version_limit_for_tier(users[AddonOwner].subscription_tier)
       /\ \E v \in Workers : jobs[v].pc = "insert"

\* The bytes an update_version payload adds to a row.
SizeDiff(row, data) ==
    (IF data.changelog_content # Unset THEN data.changelog_content
     ELSE row.changelog_content)
    + (IF data.description # Unset THEN data.description ELSE row.description)
    - row.storage_size_bytes

\* C23: whether create_version and update_version are refused for the
\* storage quota is decided by the usage recomputed from the rows at the call
\* and the user's quota; the cached column users.storage_used_bytes, whatever
\* it holds, has no part in it.
C23_DecisionFromLiveUsage ==
    /\ QuotaEvaluated
          => ((pub.result = "StorageQuotaExceeded")
                <=> (calculate_storage_used(pub.rows, AddonOwner) + ContentSize(pub.data)
                       > pub.user.storage_quota_bytes))
    /\ pub.op = "update_version"
          => \A v \in UpdateTargets :
                \A row \in get_version_by_addon_and_version(pub.rows, v) :
                   (pub.result = "StorageQuotaExceeded")
                      <=> /\ SizeDiff(row, pub.data) > 0
                          /\ calculate_storage_used(pub.rows, AddonOwner)
                                + SizeDiff(row, pub.data)
                                > pub.user.storage_quota_bytes

\* C23 witness: a create_version refused for the quota while the cached
\* column, never refreshed since the addon was written, plus the new bytes
\* is within the quota.
C23_Witness ==
    /\ pub.op = "create_version"
    /\ pub.result = "StorageQuotaExceeded"
    /\ pub.user.storage_used_bytes # calculate_storage_used(pub.rows, AddonOwner)
    /\ pub.user.storage_used_bytes + ContentSize(pub.data)
          <= pub.user.storage_quota_bytes

\* The entries of a window that a call reading `now` does not prune.
Unexpired(entries, now) == zremrangebyscore(entries, 0, now - window_size)

\* C24: a _check_limit call that returns allowed leaves exactly one more
\* unexpired entry in the window than it found, and the ZREM of a rejected
\* call takes away nothing but the entry that call added, so the entry of a
\* call that was allowed stays; also when calls read the same clock value.
C24_CallEffect ==
    \A p \in Procs :
       /\ (calls[p].pc = "pipe" /\ calls'[p].pc = "idle")
             => Cardinality(store'[ConcKey])
                  = Cardinality(Unexpired(Live(ConcKey), calls[p].now)) + 1
       /\ (calls[p].pc = "zrem" /\ calls'[p].pc = "idle")
             => (granted[calls[p].now] > 0 /\ calls[p].now \in Live(ConcKey)
                   => calls[p].now \in store'[ConcKey])

C24_WindowAfterCall == [][C24_CallEffect]_vars

\* C25: under every interleaving a call is rejected only when at least
\* `limit` calls that returned allowed have timestamps the rejected call
\* does not prune; an entry that a rejected call has added and not yet
\* removed never makes another call be rejected.
C25_RejectedAtLimit ==
    \A p \in Procs :
       (calls[p].pc = "pipe" /\ calls'[p].pc = "zrem")
          => SumGranted(calls[p].now - window_size + 1, MaxClock) >= ConcLimit

C25_RejectedOnlyAtLimit == [][C25_RejectedAtLimit]_vars

\* The row a finished request created.
CreatedBy(w) == get_version_by_addon_and_version(versions, jobs[w].data.version)

\* C26: nothing serialises the storage check with the write.  A request at
\* its check_storage_quota is never held back by another request, and the
\* check passes exactly when the rows committed so far plus its own bytes
\* fit the quota: the bytes of a request that has passed the check and not
\* yet written are not counted.
C26_CheckNeverWaits ==
    \A w \in Workers : jobs[w].pc = "quota" => ENABLED cv_quota(w)

C26_CheckCountsCommittedRows ==
    \A w \in Workers :
       (jobs[w].pc = "quota" /\ jobs'[w] # jobs[w])
          => ((jobs'[w].pc = "limit")
                <=> (calculate_storage_used(versions, AddonOwner)
                       + ContentSize(jobs[w].data)
                       <= users[AddonOwner].storage_quota_bytes))

C26_StorageCheckUnserialised ==
    [](C26_CheckNeverWaits) /\ [][C26_CheckCountsCommittedRows]_vars

\* C26 witness: two requests have both created their version; with either
\* row alone the usage is within the quota and the other request's check
\* would have refused, with both rows the usage exceeds the quota.
C26_Witness ==
    /\ \A w \in Workers : jobs[w].pc = "done" /\ jobs[w].result = "created"
    /\ jobs["w1"].data.version # jobs["w2"].data.version
    /\ LET quota == users[AddonOwner].storage_quota_bytes
           both == CreatedBy("w1") \cup CreatedBy("w2")
       IN  /\ Cardinality(both) = 2
           /\ \A w \in Workers :
                 /\ calculate_storage_used(versions \ both, AddonOwner)
                       + ContentSize(jobs[w].data) <= quota
                 /\ calculate_storage_used(versions \ CreatedBy(w), AddonOwner) <= quota
                 /\ calculate_storage_used(versions \ CreatedBy(w), AddonOwner)
                       + ContentSize(jobs[w].data) > quota
           /\ calculate_storage_used(versions, AddonOwner) > quota

\* C27: with the owner's tier, and so the version limit L, fixed and the
\* addon starting with at most L versions, two concurrent create_version
\* calls with distinct version strings that both created their version
\* leave at most L versions.
C27_ConcurrentCreatesWithinLimit ==
    (/\ \A w \in Workers : jobs[w].pc = "done" /\ jobs[w].result = "created"
     /\ jobs["w1"].data.version # jobs["w2"].data.version)
        => get_version_count(versions)
             <= get_version_limit_for_tier(users[AddonOwner].subscription_tier)

\* The clock reading at the reset epoch that the call logged as e returned.
ResetTime(e) == _check_limit({}, e.now, e.limit).reset_time * ClockResolution

\* C28: a rejected request carries the reset epoch int(now + window); when
\* it is retried at that epoch and no call on the key was allowed in
\* between, the retry is allowed.
C28_RetryAtResetAllowed ==
    \A k \in Keys :
       \A m \in 1..Len(log[k]), n \in 1..Len(log[k]) :
          (/\ m < n
           /\ log[k][m].returned /\ ~log[k][m].allowed
           /\ log[k][n].returned
           /\ log[k][n].now = ResetTime(log[k][m])
           /\ \A j \in (m + 1)..(n - 1) : log[k][j].returned /\ ~log[k][j].allowed)
              => log[k][n].allowed

\* C29: whatever grants, revocations, changes of the persisted tier and
\* clock advances have happened, a user's effective tier is never lower
\* than the user's persisted subscription tier.
C29_EffectiveNotBelowPersisted ==
    \A u \in Users :
       tier_order(get_effective_tier(users[u], clock))
          >= tier_order(users[u].subscription_tier)

\* C30: every request that runs VersionService.create_version, through
\* POST /addons/{slug}/versions or through the automation publish endpoint,
\* has passed RateLimiter.check before, the IP check and then the user
\* check, and was allowed by both.
C30_CreateRunsBehindLimiter ==
    (/\ pub.result = None
     /\ pub'.op \in {"create_version", "publish_version"}
     /\ pub'.result \notin {"Forbidden_tier", "Forbidden"})
        => /\ req.pc = "done"
           /\ req.outcome = "proceed"
           /\ req.user_id = AddonOwner
           /\ req.ip_called /\ req.ip_allowed
           /\ req.user_called /\ req.user_allowed
           /\ req' = NoReq

C30_VersionCreationGated == [][C30_CreateRunsBehindLimiter]_vars

====
